---- MODULE Spec2Model ----
(***************************************************************************)
(* Model of the StockAnalyzer component (src/components/StockAnalyzer.tsx). *)
(*                                                                         *)
(* The component holds ten pieces of React state (the raw text of every    *)
(* form field, the stored analysis result and the error map).  Every       *)
(* onChange handler and the calculate button are one atomic step: React    *)
(* runs a handler to completion against the state of the last render and   *)
(* applies all its setState calls together.                                *)
(*                                                                         *)
(* Representation.  A field string is a record [kind, val]: the empty      *)
(* string, a decimal literal (val is the value in hundredths) or text that *)
(* does not parse as a number.  Every numeric input has type="number", for *)
(* which the browser reports "" instead of unparsable text, so the edits   *)
(* enumerated below supply only empty and decimal strings; stockName is a  *)
(* plain text field.  JavaScript numbers are modelled as exact rationals   *)
(* in lowest terms (a NaN flag covers Number of unparsable text and 0/0);  *)
(* binary floating-point rounding error is not modelled.                   *)
(*                                                                         *)
(* Three history variables accompany the React state: lastOp names the     *)
(* handler that ran last, lastInput is the value its event carried, and    *)
(* steps counts the handlers run so far (at most MaxSteps).                *)
(***************************************************************************)
EXTENDS Integers, FiniteSets, Sequences, TLC

VARIABLES stockName, buyPrice, shares, sellPrice, sellPricePercent,
          mtfEnabled, marginMultiplier, mtfTargetPrice, result, errors,
          lastOp, lastInput, steps

fields == <<stockName, buyPrice, shares, sellPrice, sellPricePercent,
            mtfEnabled, marginMultiplier, mtfTargetPrice>>

vars == <<stockName, buyPrice, shares, sellPrice, sellPricePercent,
          mtfEnabled, marginMultiplier, mtfTargetPrice, result, errors,
          lastOp, lastInput, steps>>

----------------------------------------------------------------------------
(* Field strings *)

\* The empty string "".
Empty == [kind |-> "empty", val |-> 0]

\* A decimal literal whose value is h hundredths ("110" is Dec(11000)).
Dec(h) == [kind |-> "num", val |-> h]

\* A non-empty string that is not a numeric literal.
Text == [kind |-> "text", val |-> 0]

\* JavaScript truthiness of a string: any non-empty string is truthy.
Truthy(s) == s.kind # "empty"

----------------------------------------------------------------------------
(* Numbers: exact rationals n/d in lowest terms, d > 0, or NaN *)

Abs(x) == IF x < 0 THEN -x ELSE x

RECURSIVE GCD(_, _)
GCD(a, b) == IF b = 0 THEN a ELSE GCD(b, a % b)

NaN == [nan |-> TRUE, n |-> 0, d |-> 1]

Rat(n, d) ==
  LET g == GCD(Abs(n), Abs(d))
      s == IF d < 0 THEN -1 ELSE 1
  IN  [nan |-> FALSE, n |-> s * (n \div g), d |-> s * (d \div g)]

Int2Num(k) == Rat(k, 1)

\* Number(str): "" converts to 0, a literal to its value, other text to NaN.
Number(s) ==
  CASE s.kind = "empty" -> Rat(0, 1)
    [] s.kind = "num"   -> Rat(s.val, 100)
    [] OTHER            -> NaN

\* isNaN(x)
IsNaN(x) == x.nan

\* Comparisons: false whenever an operand is NaN.
Gt(x, y) == ~x.nan /\ ~y.nan /\ x.n * y.d > y.n * x.d

Le(x, y) == ~x.nan /\ ~y.nan /\ x.n * y.d <= y.n * x.d

\* Truthiness of a number: false for 0 and NaN.
NumTruthy(x) == ~x.nan /\ x.n # 0

Add(x, y) == IF x.nan \/ y.nan THEN NaN ELSE Rat(x.n * y.d + y.n * x.d, x.d * y.d)

Sub(x, y) == IF x.nan \/ y.nan THEN NaN ELSE Rat(x.n * y.d - y.n * x.d, x.d * y.d)

Mul(x, y) == IF x.nan \/ y.nan THEN NaN ELSE Rat(x.n * y.n, x.d * y.d)

\* Every division in the component has a divisor the code has checked to be
\* positive; a zero divisor is mapped to NaN.
Div(x, y) ==
  IF x.nan \/ y.nan \/ y.n = 0 THEN NaN ELSE Rat(x.n * y.d, x.d * y.n)

\* x.toFixed(2): the decimal string with two fraction digits nearest to x, the
\* larger magnitude on a tie; "NaN" for NaN.
ToFixed2(x) ==
  IF x.nan THEN Text
  ELSE LET whole == Abs(x.n) \div x.d
           rest == Abs(x.n) % x.d
           m == whole * 100 + (2 * rest * 100 + x.d) \div (2 * x.d)
       IN  Dec(IF x.n < 0 THEN -m ELSE m)

\* stockName.trim(): stockName takes the values "", " " and "TCS".
Trim(s) == IF s = " " THEN "" ELSE s

----------------------------------------------------------------------------
(* Values the user enters *)

MaxSteps == 7

Step == steps < MaxSteps /\ steps' = steps + 1

StockNames == {" ", "TCS"}

BuyPrices == {Dec(0), Dec(10000), Dec(50000)}

ShareCounts == {Dec(1000)}

SellPrices == {Empty, Dec(11000), Dec(50003)}

Percents == {Empty, Dec(0), Dec(1000)}

Multipliers == {Dec(90), Dec(100), Dec(101)}

TargetPrices == {Dec(11500)}

----------------------------------------------------------------------------
(* validateInputs *)

\* !x || isNaN(Number(x)) || Number(x) <= 0
NotPositive(x) == ~Truthy(x) \/ IsNaN(Number(x)) \/ Le(Number(x), Int2Num(0))

\* MarginInvalid with the comparison < 1 in place of <= 1.
MarginInvalidBelowOne(x) ==
  ~Truthy(x) \/ IsNaN(Number(x)) \/ (Le(Number(x), Int2Num(1)) /\ Number(x) # Int2Num(1))

\* !marginMultiplier || isNaN(Number(marginMultiplier)) || Number(marginMultiplier) <= 1
MarginInvalid(x) == ~Truthy(x) \/ IsNaN(Number(x)) \/ Le(Number(x), Int2Num(1))

\* The keys of newErrors (each key always carries the same message).
NewErrors ==
  {f \in {"stockName"} : Trim(stockName) = ""}
    \cup {f \in {"buyPrice"} : NotPositive(buyPrice)}
    \cup {f \in {"shares"} : NotPositive(shares)}
    \cup {f \in {"sellPrice"} : NotPositive(sellPrice)}
    \cup {f \in {"marginMultiplier"} : mtfEnabled /\ MarginInvalid(marginMultiplier)}
    \cup {f \in {"mtfTargetPrice"} : mtfEnabled /\ NotPositive(mtfTargetPrice)}

\* validateInputs returns Object.keys(newErrors).length === 0
ValidateInputs == NewErrors = {}

----------------------------------------------------------------------------
(* calculateAnalysis *)

\* useState<AnalysisResult | null>(null)
Null == [isNull |-> TRUE]

\* Baseline with the operands of the profit subtraction exchanged.
BaselineSwapped(buyPriceNum, sharesNum, sellPriceNum) ==
  LET totalInvested == Mul(buyPriceNum, sharesNum)
      totalSellAmount == Mul(sellPriceNum, sharesNum)
      profitLoss == Sub(totalInvested, totalSellAmount)
      profitLossPercentage == Mul(Div(profitLoss, totalInvested), Int2Num(100))
  IN  [isNull |-> FALSE,
       totalInvested |-> totalInvested,
       totalSellAmount |-> totalSellAmount,
       profitLoss |-> profitLoss,
       profitLossPercentage |-> profitLossPercentage]

\* The four baseline fields computed from buyPrice, shares and sellPrice.
Baseline(buyPriceNum, sharesNum, sellPriceNum) ==
  LET totalInvested == Mul(buyPriceNum, sharesNum)
      totalSellAmount == Mul(sellPriceNum, sharesNum)
      profitLoss == Sub(totalSellAmount, totalInvested)
      profitLossPercentage == Mul(Div(profitLoss, totalInvested), Int2Num(100))
  IN  [isNull |-> FALSE,
       totalInvested |-> totalInvested,
       totalSellAmount |-> totalSellAmount,
       profitLoss |-> profitLoss,
       profitLossPercentage |-> profitLossPercentage]

\* MtfFields with the percentage taken against the buying power.
MtfFieldsOnBuyingPower(totalInvested, buyPriceNum, marginMultiplierNum, mtfTargetPriceNum) ==
  LET mtfBuyingPower == Mul(totalInvested, marginMultiplierNum)
      mtfShares == Div(mtfBuyingPower, buyPriceNum)
      mtfSellAmount == Mul(mtfShares, mtfTargetPriceNum)
      mtfProfitLoss == Sub(mtfSellAmount, mtfBuyingPower)
      mtfProfitLossPercentage == Mul(Div(mtfProfitLoss, mtfBuyingPower), Int2Num(100))
  IN  [mtfBuyingPower |-> mtfBuyingPower,
       mtfProfitLoss |-> mtfProfitLoss,
       mtfProfitLossPercentage |-> mtfProfitLossPercentage]

\* The three MTF fields of the if (mtfEnabled) block.
MtfFields(totalInvested, buyPriceNum, marginMultiplierNum, mtfTargetPriceNum) ==
  LET mtfBuyingPower == Mul(totalInvested, marginMultiplierNum)
      mtfShares == Div(mtfBuyingPower, buyPriceNum)
      mtfSellAmount == Mul(mtfShares, mtfTargetPriceNum)
      mtfProfitLoss == Sub(mtfSellAmount, mtfBuyingPower)
      mtfProfitLossPercentage == Mul(Div(mtfProfitLoss, totalInvested), Int2Num(100))
  IN  [mtfBuyingPower |-> mtfBuyingPower,
       mtfProfitLoss |-> mtfProfitLoss,
       mtfProfitLossPercentage |-> mtfProfitLossPercentage]

\* Record r extended with the fields of record m.
Extend(r, m) ==
  [k \in DOMAIN r \cup DOMAIN m |-> IF k \in DOMAIN m THEN m[k] ELSE r[k]]

\* analysisResult as built from the current field values.
AnalysisResult ==
  LET base == Baseline(Number(buyPrice), Number(shares), Number(sellPrice))
  IN  IF mtfEnabled
      THEN Extend(base, MtfFields(base.totalInvested, Number(buyPrice),
                                  Number(marginMultiplier), Number(mtfTargetPrice)))
      ELSE base

\* ResultAfter without the early return on failed validation.
ResultAfterNoReturn(valid) == AnalysisResult

\* The result held after the trigger: the early return keeps the old one.
ResultAfter(valid) == IF valid THEN AnalysisResult ELSE result

CalculateAnalysis ==
  /\ errors' = NewErrors
  /\ result' = ResultAfter(ValidateInputs)
  /\ lastOp' = "calculate"
  /\ lastInput' = "click"
  /\ Step
  /\ UNCHANGED fields

----------------------------------------------------------------------------
(* Price / percent synchronisation *)

\* SellPriceFromPercent without the 1 +: the change alone, not the new price.
SellPriceFromPercentChangeOnly(bp, percent) ==
  ToFixed2(Mul(bp, Div(percent, Int2Num(100))))

\* (bp * (1 + percent / 100)).toFixed(2)
SellPriceFromPercent(bp, percent) ==
  ToFixed2(Mul(bp, Add(Int2Num(1), Div(percent, Int2Num(100)))))

\* PercentFromSellPrice with the change taken relative to the sell price.
PercentFromSellPriceOverSell(bp, sp) ==
  ToFixed2(Mul(Div(Sub(sp, bp), sp), Int2Num(100)))

\* (((sp - bp) / bp) * 100).toFixed(2)
PercentFromSellPrice(bp, sp) ==
  ToFixed2(Mul(Div(Sub(sp, bp), bp), Int2Num(100)))

\* buyPrice onChange: the sell price set when a percent string is held.
SellPriceOnBuyEdit(v) ==
  LET bp == Number(v)
      percent == Number(sellPricePercent)
  IN  IF Gt(bp, Int2Num(0)) /\ NumTruthy(percent)
      THEN SellPriceFromPercent(bp, percent)
      ELSE Empty

BuyPriceChange(v) ==
  /\ buyPrice' = v
  /\ sellPrice' = IF Truthy(sellPricePercent) THEN SellPriceOnBuyEdit(v) ELSE sellPrice
  /\ lastOp' = "buyPrice"
  /\ lastInput' = v
  /\ Step
  /\ UNCHANGED <<stockName, shares, sellPricePercent, mtfEnabled,
                 marginMultiplier, mtfTargetPrice, result, errors>>

\* PercentOnSellEdit without the else branch: the old percent stays.
PercentOnSellEditKeep(newSellPrice) ==
  LET bp == Number(buyPrice)
      sp == Number(newSellPrice)
  IN  IF Gt(bp, Int2Num(0)) /\ Gt(sp, Int2Num(0))
      THEN PercentFromSellPrice(bp, sp)
      ELSE sellPricePercent

\* sellPrice onChange: the percent string set for the new sell price.
PercentOnSellEdit(newSellPrice) ==
  LET bp == Number(buyPrice)
      sp == Number(newSellPrice)
  IN  IF Gt(bp, Int2Num(0)) /\ Gt(sp, Int2Num(0))
      THEN PercentFromSellPrice(bp, sp)
      ELSE Empty

SellPriceChange(newSellPrice) ==
  /\ sellPrice' = newSellPrice
  /\ sellPricePercent' = PercentOnSellEdit(newSellPrice)
  /\ lastOp' = "sellPrice"
  /\ lastInput' = newSellPrice
  /\ Step
  /\ UNCHANGED <<stockName, buyPrice, shares, mtfEnabled,
                 marginMultiplier, mtfTargetPrice, result, errors>>

\* sellPricePercent onChange: the sell price after the edit.
SellPriceOnPercentEdit(percent) ==
  LET bp == Number(buyPrice)
  IN  IF Gt(bp, Int2Num(0)) /\ percent # Empty
      THEN SellPriceFromPercent(bp, Number(percent))
      ELSE sellPrice

SellPricePercentChange(percent) ==
  /\ sellPricePercent' = percent
  /\ sellPrice' = SellPriceOnPercentEdit(percent)
  /\ lastOp' = "sellPricePercent"
  /\ lastInput' = percent
  /\ Step
  /\ UNCHANGED <<stockName, buyPrice, shares, mtfEnabled,
                 marginMultiplier, mtfTargetPrice, result, errors>>

----------------------------------------------------------------------------
(* The remaining onChange handlers: a single setState each *)

StockNameChange(v) ==
  /\ stockName' = v
  /\ lastOp' = "stockName"
  /\ lastInput' = v
  /\ Step
  /\ UNCHANGED <<buyPrice, shares, sellPrice, sellPricePercent, mtfEnabled,
                 marginMultiplier, mtfTargetPrice, result, errors>>

\* SharesChange that also discards the stored result.
SharesChangeResetting(v) ==
  /\ shares' = v
  /\ result' = Null
  /\ lastOp' = "shares"
  /\ lastInput' = v
  /\ Step
  /\ UNCHANGED <<stockName, buyPrice, sellPrice, sellPricePercent, mtfEnabled,
                 marginMultiplier, mtfTargetPrice, errors>>

SharesChange(v) ==
  /\ shares' = v
  /\ lastOp' = "shares"
  /\ lastInput' = v
  /\ Step
  /\ UNCHANGED <<stockName, buyPrice, sellPrice, sellPricePercent, mtfEnabled,
                 marginMultiplier, mtfTargetPrice, result, errors>>

MtfEnabledChange(checked) ==
  /\ mtfEnabled' = checked
  /\ lastOp' = "mtfEnabled"
  /\ lastInput' = checked
  /\ Step
  /\ UNCHANGED <<stockName, buyPrice, shares, sellPrice, sellPricePercent,
                 marginMultiplier, mtfTargetPrice, result, errors>>

\* The two MTF inputs are rendered only while mtfEnabled is true.
MarginMultiplierChange(v) ==
  /\ mtfEnabled
  /\ marginMultiplier' = v
  /\ lastOp' = "marginMultiplier"
  /\ lastInput' = v
  /\ Step
  /\ UNCHANGED <<stockName, buyPrice, shares, sellPrice, sellPricePercent,
                 mtfEnabled, mtfTargetPrice, result, errors>>

\* MtfTargetPriceChange that also derives the sell percent from the target.
MtfTargetPriceChangeSyncing(v) ==
  /\ mtfEnabled
  /\ mtfTargetPrice' = v
  /\ sellPricePercent' = PercentOnSellEdit(v)
  /\ lastOp' = "mtfTargetPrice"
  /\ lastInput' = v
  /\ Step
  /\ UNCHANGED <<stockName, buyPrice, shares, sellPrice,
                 mtfEnabled, marginMultiplier, result, errors>>

MtfTargetPriceChange(v) ==
  /\ mtfEnabled
  /\ mtfTargetPrice' = v
  /\ lastOp' = "mtfTargetPrice"
  /\ lastInput' = v
  /\ Step
  /\ UNCHANGED <<stockName, buyPrice, shares, sellPrice, sellPricePercent,
                 mtfEnabled, marginMultiplier, result, errors>>

----------------------------------------------------------------------------
(* The component *)

Init ==
  /\ stockName = ""
  /\ buyPrice = Empty
  /\ shares = Empty
  /\ sellPrice = Empty
  /\ sellPricePercent = Empty
  /\ mtfEnabled = FALSE
  /\ marginMultiplier = Dec(250)
  /\ mtfTargetPrice = Empty
  /\ result = Null
  /\ errors = {}
  /\ lastOp = "none"
  /\ lastInput = "none"
  /\ steps = 0

Next ==
  \/ \E v \in StockNames : StockNameChange(v)
  \/ \E v \in BuyPrices : BuyPriceChange(v)
  \/ \E v \in ShareCounts : SharesChange(v)
  \/ \E v \in SellPrices : SellPriceChange(v)
  \/ \E v \in Percents : SellPricePercentChange(v)
  \/ \E b \in {~mtfEnabled} : MtfEnabledChange(b)
  \/ \E v \in Multipliers : MarginMultiplierChange(v)
  \/ \E v \in TargetPrices : MtfTargetPriceChange(v)
  \/ CalculateAnalysis

Spec == Init /\ [][Next]_vars

----------------------------------------------------------------------------
(* The price / percent round trip over a grid of prices *)

MaxCents == 6

\* Prices a few cents above 20, 100 and 500.
RoundTripPrices ==
  {Dec(2000 + h) : h \in 0..MaxCents}
    \cup {Dec(10000 + h) : h \in 0..MaxCents}
    \cup {Dec(50000 + h) : h \in 0..MaxCents}

\* The form after a first edit has set a buy price of the grid.
RoundTripInit ==
  /\ stockName = ""
  /\ buyPrice \in RoundTripPrices
  /\ shares = Empty
  /\ sellPrice = Empty
  /\ sellPricePercent = Empty
  /\ mtfEnabled = FALSE
  /\ marginMultiplier = Dec(250)
  /\ mtfTargetPrice = Empty
  /\ result = Null
  /\ errors = {}
  /\ lastOp = "buyPrice"
  /\ lastInput = buyPrice
  /\ steps = 1

\* The user enters a sell price, or re-enters the percent the form shows.
RoundTripNext ==
  \/ \E v \in RoundTripPrices : SellPriceChange(v)
  \/ \E v \in {sellPricePercent} : SellPricePercentChange(v)

RoundTripSpec == RoundTripInit /\ [][RoundTripNext]_vars

----------------------------------------------------------------------------
(* Vocabulary of the properties *)

\* The step just taken is the calculate trigger.
Triggered == lastOp' = "calculate" /\ steps' # steps

\* A field string is empty, non-numeric or not above the limit (in hundredths).
NotAbove(x, limit) == x.kind # "num" \/ x.val <= limit

\* The fields that fail a validation rule, as the rules are stated.
FailingFields ==
  {f \in {"stockName", "buyPrice", "shares", "sellPrice",
          "marginMultiplier", "mtfTargetPrice"} :
     \/ f = "stockName" /\ stockName \in {"", " "}
     \/ f = "buyPrice" /\ NotAbove(buyPrice, 0)
     \/ f = "shares" /\ NotAbove(shares, 0)
     \/ f = "sellPrice" /\ NotAbove(sellPrice, 0)
     \/ f = "marginMultiplier" /\ mtfEnabled /\ NotAbove(marginMultiplier, 100)
     \/ f = "mtfTargetPrice" /\ mtfEnabled /\ NotAbove(mtfTargetPrice, 0)}

\* The value of a decimal field string as a number.
ValueOf(x) == Rat(x.val, 100)

\* A successful trigger was the last step: the stored result is the one
\* computed from the field values now held.
JustCalculated == lastOp = "calculate" /\ errors = {} /\ FailingFields = {}

----------------------------------------------------------------------------
(* C1 *)

\* C1: a trigger on a field state that fails a validation rule performs no
\* calculation: the stored result is left as it was, and the error map is set
\* to contain an entry for each failing field.
C1_InvalidTriggerKeepsResult ==
  [][(Triggered /\ FailingFields # {})
       => (result' = result /\ FailingFields \subseteq errors')]_vars

\* A trigger with buyPrice = 0 has just been rejected while an earlier result
\* is stored.
C1_Witness ==
  /\ lastOp = "calculate"
  /\ buyPrice = Dec(0)
  /\ "buyPrice" \in errors
  /\ result # Null

----------------------------------------------------------------------------
(* C2 *)

\* C2: after a trigger on valid input, totalInvested = buyPrice * shares,
\* totalSellAmount = sellPrice * shares, profitLoss = (sellPrice - buyPrice) *
\* shares and profitLossPercentage = profitLoss / (buyPrice * shares) * 100.
C2_BaselineFormulas ==
  JustCalculated =>
    LET bp == ValueOf(buyPrice)
        sh == ValueOf(shares)
        sp == ValueOf(sellPrice)
    IN  /\ result.totalInvested = Mul(bp, sh)
        /\ result.totalSellAmount = Mul(sp, sh)
        /\ result.profitLoss = Mul(Sub(sp, bp), sh)
        /\ result.profitLossPercentage =
             Mul(Div(Mul(Sub(sp, bp), sh), Mul(bp, sh)), Int2Num(100))

\* The scenario 100, 10, 110 has been calculated: 1000, 1100, 100, 10.
C2_Witness ==
  /\ JustCalculated
  /\ buyPrice = Dec(10000) /\ shares = Dec(1000) /\ sellPrice = Dec(11000)
  /\ result.totalInvested = Int2Num(1000)
  /\ result.totalSellAmount = Int2Num(1100)
  /\ result.profitLoss = Int2Num(100)
  /\ result.profitLossPercentage = Int2Num(10)

----------------------------------------------------------------------------
(* C3 *)

\* Interest rates (percent a year) and holding periods (days) of the MTF
\* interest formula.
InterestRates == {1, 12}

HoldingDays == {1, 7, 365}

\* borrowedAmount * (rate / 100) * (days / 365), with borrowedAmount =
\* mtfBuyingPower - totalInvested.
InterestCost(rate, days) ==
  LET totalInvested == Mul(ValueOf(buyPrice), ValueOf(shares))
      borrowedAmount == Sub(Mul(totalInvested, ValueOf(marginMultiplier)), totalInvested)
  IN  Mul(Mul(borrowedAmount, Rat(rate, 100)), Rat(days, 365))

\* shares * marginMultiplier * (mtfTargetPrice - buyPrice), which is
\* mtfShares * mtfTargetPrice - mtfBuyingPower.
GrossMtfProfitLoss ==
  Mul(Mul(ValueOf(shares), ValueOf(marginMultiplier)),
      Sub(ValueOf(mtfTargetPrice), ValueOf(buyPrice)))

----------------------------------------------------------------------------
(* C4 *)

\* C4: with mtfEnabled, a trigger records a marginMultiplier error for every
\* marginMultiplier <= 1 and stores no result; it records no marginMultiplier
\* error for a numeric value > 1.
C4_MarginAboveOne ==
  [][Triggered =>
       /\ (mtfEnabled /\ NotAbove(marginMultiplier, 100))
            => ("marginMultiplier" \in errors' /\ result' = result)
       /\ (marginMultiplier.kind = "num" /\ marginMultiplier.val > 100)
            => "marginMultiplier" \notin errors']_vars

\* A trigger with mtfEnabled and marginMultiplier exactly 1 has been rejected.
C4_Witness ==
  /\ lastOp = "calculate"
  /\ mtfEnabled
  /\ marginMultiplier = Dec(100)
  /\ "marginMultiplier" \in errors

----------------------------------------------------------------------------
(* C5 *)

\* C5 as stated: whenever the held buyPrice is zero, empty or non-numeric,
\* the sell percent field is empty.
C5_PercentClearedWithoutBuyPrice ==
  NotAbove(buyPrice, 0) => sellPricePercent = Empty

\* C5 amended: right after an edit of sellPrice, whenever the held buyPrice
\* is zero, empty or non-numeric, the sell percent field is empty.
C5_SellEditClearsPercent ==
  (lastOp = "sellPrice" /\ NotAbove(buyPrice, 0)) => sellPricePercent = Empty

\* A sell price has been entered while buyPrice is 0, and the percent is empty.
C5_Witness ==
  /\ lastOp = "sellPrice"
  /\ buyPrice = Dec(0)
  /\ sellPrice = Dec(11000)
  /\ sellPricePercent = Empty

----------------------------------------------------------------------------
(* C6, C9: the two derivations as the properties state them *)

\* x rounded to 2 decimals (half away from zero), as a field string.
Round2(x) ==
  LET w == Abs(x.n) \div x.d
      f == Abs(x.n) % x.d
      q == (f * 100) \div x.d
      r == (f * 100) % x.d
      m == w * 100 + q + (IF 2 * r >= x.d THEN 1 ELSE 0)
  IN  Dec(IF x.n < 0 THEN -m ELSE m)

\* round2(buyPrice * (1 + percent / 100))
PriceOfPercent(bp, percent) ==
  Round2(Add(ValueOf(bp), Div(Mul(ValueOf(bp), ValueOf(percent)), Int2Num(100))))

\* round2((price - buyPrice) / buyPrice * 100)
PercentOfPrice(bp, price) ==
  Round2(Sub(Mul(Div(ValueOf(price), ValueOf(bp)), Int2Num(100)), Int2Num(100)))

\* C6: editing buyPrice to a positive value while a sell percent is held (0
\* included) re-derives sellPrice as round2(newBuyPrice * (1 + percent / 100))
\* and leaves the percent unchanged.
C6_BuyEditRederivesSellPrice ==
  [][(lastOp' = "buyPrice" /\ steps' # steps
        /\ ~NotAbove(buyPrice', 0) /\ sellPricePercent.kind = "num")
       => /\ sellPrice' = PriceOfPercent(buyPrice', sellPricePercent)
          /\ sellPricePercent' = sellPricePercent]_vars

----------------------------------------------------------------------------
(* C7 *)

\* The user re-enters the percent that the last sell price edit derived.
PercentReentered ==
  /\ lastOp = "sellPrice" /\ sellPricePercent # Empty
  /\ lastOp' = "sellPricePercent" /\ steps' # steps
  /\ lastInput' = sellPricePercent

\* C7 as stated: the price derived back from the percent of a price is the
\* price within 0.01.
C7_RoundTripWithinOneCent ==
  [][PercentReentered => Abs(sellPrice'.val - sellPrice.val) <= 1]_vars

\* C7 amended: it is the price within 0.005 + buyPrice * 0.00005 (which is
\* within 0.01 for buyPrice <= 100).
C7_RoundTripWithinScaledTolerance ==
  [][PercentReentered
       => 20000 * Abs(sellPrice'.val - sellPrice.val) <= 10000 + buyPrice.val]_vars

\* At buyPrice 500 the percent 0.01 has been re-entered and gave 500.05.
C7_Witness ==
  /\ lastOp = "sellPricePercent"
  /\ buyPrice = Dec(50000)
  /\ sellPricePercent = Dec(1)
  /\ sellPrice = Dec(50005)

----------------------------------------------------------------------------
(* C8 *)

\* C8: every edit of buyPrice, sellPrice or sellPricePercent leaves
\* mtfTargetPrice, marginMultiplier and mtfEnabled unchanged, and every edit
\* of mtfTargetPrice, marginMultiplier or mtfEnabled leaves sellPrice and
\* sellPricePercent unchanged.
C8_SellAndMtfIndependent ==
  [][/\ (lastOp' \in {"buyPrice", "sellPrice", "sellPricePercent"} /\ steps' # steps)
          => UNCHANGED <<mtfTargetPrice, marginMultiplier, mtfEnabled>>
     /\ (lastOp' \in {"mtfTargetPrice", "marginMultiplier", "mtfEnabled"} /\ steps' # steps)
          => UNCHANGED <<sellPrice, sellPricePercent>>]_vars

\* The MTF target price has been edited while a sell price and percent are held.
C8_Witness ==
  /\ lastOp = "mtfTargetPrice"
  /\ mtfTargetPrice = Dec(11500)
  /\ sellPrice = Dec(11000)
  /\ sellPricePercent = Dec(1000)

----------------------------------------------------------------------------
(* C9 *)

\* C9: if buyPrice > 0 and both sellPrice and sellPricePercent are non-empty,
\* then sellPricePercent = round2((sellPrice - buyPrice) / buyPrice * 100) or
\* sellPrice = round2(buyPrice * (1 + sellPricePercent / 100)); the field just
\* edited holds the value the user entered.
C9_SellPairConsistent ==
  /\ (~NotAbove(buyPrice, 0) /\ sellPrice # Empty /\ sellPricePercent # Empty)
       => \/ sellPricePercent = PercentOfPrice(buyPrice, sellPrice)
          \/ sellPrice = PriceOfPercent(buyPrice, sellPricePercent)
  /\ lastOp = "buyPrice" => buyPrice = lastInput
  /\ lastOp = "sellPrice" => sellPrice = lastInput
  /\ lastOp = "sellPricePercent" => sellPricePercent = lastInput

\* A buyPrice edit has re-derived the sell price from a held percent that the
\* old prices produced: 500.03 at 100 is 400.03 %, which at 500 is 2500.15.
C9_Witness ==
  /\ lastOp = "buyPrice"
  /\ buyPrice = Dec(50000)
  /\ sellPricePercent = Dec(40003)
  /\ sellPrice = Dec(250015)

----------------------------------------------------------------------------
(* C10 *)

\* C10: every field edit leaves result and errors unchanged; result is
\* replaced only by a trigger whose validation succeeds, by the value computed
\* from the field values held at that trigger, with the MTF fields present
\* exactly if mtfEnabled.
C10_OnlyTriggerStores ==
  [][/\ lastOp' # "calculate" => (result' = result /\ errors' = errors)
     /\ result' # result => (Triggered /\ FailingFields = {})
     /\ (Triggered /\ FailingFields = {})
          => /\ result' = AnalysisResult
             /\ "mtfBuyingPower" \in DOMAIN result' <=> mtfEnabled]_vars

\* buyPrice has been edited to 500 after a calculation at 100: the stored
\* result still reports the 1000 invested.
C10_Witness ==
  /\ lastOp = "buyPrice"
  /\ buyPrice = Dec(50000)
  /\ result # Null
  /\ result.totalInvested = Int2Num(1000)

====
